---- MODULE Spec2Model ----
(***************************************************************************)
(* Model of youtube_face_search.py: main drives every input video through  *)
(* process_video (metadata, thumbnail check, avatar check, download,       *)
(* extract_frames, detect_known_faces_in_frames, os.remove) and writes the *)
(* collected results at the end of the run.                                *)
(*                                                                         *)
(* External capabilities (YouTube API, HTTP image fetch, yt-dlp, the video *)
(* decoder, the face detector) are the environment: each call's answer is  *)
(* chosen nondeterministically from a small set when the call is made.     *)
(***************************************************************************)
EXTENDS Integers, Sequences, FiniteSets, TLC

VARIABLES
  pc,                    \* position of main
  known_faces_dir,       \* input: the known_faces directory (listing, or missing)
  known_face_encodings,  \* main: gallery embeddings
  known_face_names,      \* main: gallery names
  videos,                \* input: the records of the JSON file
  idx,                   \* main: 1-based position of the for loop
  results,               \* main: results list
  output,                \* face_recognition_results.json (written or not)
  temp_dir,              \* the directory made by tempfile.mkdtemp exists
  files,                 \* content of temp_dir: path -> video properties
  pv,                    \* position of process_video
  video_id,              \* process_video local
  thumbnail_url,         \* process_video local
  avatar_url,            \* process_video local
  has_thumb,             \* process_video local has_known_face_in_thumbnail
  has_avatar,            \* process_video local has_known_face_in_avatar
  has_video,             \* process_video local has_known_face_in_video
  video_path,            \* process_video local
  ret,                   \* value process_video returns
  attempt,               \* loop variable of the retry loop being run
  cap,                   \* extract_frames: the cv2.VideoCapture handle
  frame_count,           \* extract_frames local
  frames,                \* extract_frames local / process_video local
  timestamps,            \* extract_frames local / process_video local
  fi,                    \* detect_known_faces_in_frames: frames examined
  hist,                  \* observation log of the calls made for this video
  image,                 \* detect_known_faces_in_image called on its own: argument
  matched                \* detect_known_faces_in_image called on its own: outcome

vars == <<pc, known_faces_dir, known_face_encodings, known_face_names, videos,
          idx, results, output, temp_dir, files, pv, video_id, thumbnail_url,
          avatar_url, has_thumb, has_avatar, has_video, video_path, ret,
          attempt, cap, frame_count, frames, timestamps, fi, hist, image,
          matched>>

----------------------------------------------------------------------------
(* Bounds of the model *)

MaxVideos == 2        \* longest input list
PipeFrames == 1       \* longest video a download produces in a full run
MaxFrames == 12       \* longest video handed to extract_frames on its own
MaxEmit == 2          \* cap on the frames list of a non-advancing sampling loop
MaxFiles == 3         \* most files of a known_faces directory loaded on its own
MaxFaces == 2         \* most faces of an image handed to the matcher on its own

(* Program constants *)

retries == 3              \* download_video / get_video_and_channel_info default
BlurThreshold == 150      \* is_frame_blurry(best_frame, threshold=150)
ContrastThreshold == 30   \* has_low_contrast(best_frame, threshold=30)
MinFaceSize == 40         \* (right - left) < 40 or (bottom - top) < 40
tolerance == 45           \* compare_faces(..., tolerance=0.45), in hundredths
interval == 250           \* extract_frames interval=2.5, in hundredths of a second
look_around == 25         \* extract_frames look_around=0.25, in hundredths

None == "None"
NoResult == [kind |-> "none"]
NoCap == [opened |-> FALSE, released |-> FALSE, fps |-> 0, total |-> 0]

----------------------------------------------------------------------------
(* Small helpers *)

Abs(x) == IF x < 0 THEN 0 - x ELSE x
Max(a, b) == IF a > b THEN a ELSE b
Min(a, b) == IF a < b THEN a ELSE b

SeqsUpTo(S, n) == UNION {[1..k -> S] : k \in 0..n}

\* Python int(x) of a non-negative float given as num / den
PyInt(num, den) == num \div den

----------------------------------------------------------------------------
(* Face matcher: detect_known_faces_in_image and the per-frame body of     *)
(* detect_known_faces_in_frames share the same face loop.                  *)

\* an embedding is a 1-dimensional vector, in hundredths
face_distance(known, enc) == Abs(known - enc)

\* face_recognition.compare_faces: list(face_distance(...) <= tolerance)
compare_faces(encs, enc) ==
  [i \in 1..Len(encs) |-> face_distance(encs[i], enc) <= tolerance]

\* variant: a box is skipped only when both sides are short
TooSmallBothSides(face) == face.width < MinFaceSize /\ face.height < MinFaceSize

TooSmall(face) == face.width < MinFaceSize \/ face.height < MinFaceSize

\* the for loop over face_locations: some face that is not skipped matches
FaceLoop(faces, encs) ==
  \E i \in 1..Len(faces) :
     /\ ~TooSmall(faces[i])
     /\ \E j \in 1..Len(encs) : compare_faces(encs, faces[i].enc)[j]

\* a detected face: the sides of its box and its embedding
Face(width, height, enc) == [width |-> width, height |-> height, enc |-> enc]

\* faces the detector reports: too narrow, too low, and two of full size whose
\* embeddings lie on either side of the tolerance from the gallery entry 91
FaceSet == {Face(39, 40, 46), Face(40, 39, 46), Face(40, 40, 46), Face(40, 40, 45)}

\* the faces of an image handed to the matcher on its own: every combination
\* of sides around 40 and of embeddings at 45 and 46 from the entries 0 and 91
MatcherFaces == {Face(w, h, e) : w \in {39, 40}, h \in {39, 40}, e \in {45, 46}}

NoImage == [kind |-> "none", bad |-> FALSE, faces |-> <<>>]
ImageSet ==
  [kind : {"image"}, bad : {FALSE}, faces : SeqsUpTo(FaceSet, 2)]
    \cup {[kind |-> "image", bad |-> TRUE, faces |-> <<>>]}

\* the try block of detect_known_faces_in_image (lines 83-101): a call of the
\* detector or of the encoder raises, or the face loop decides
MatchBody(img, encs) ==
  IF img.bad THEN "raise"
  ELSE IF img.faces = <<>> THEN "false"
  ELSE IF FaceLoop(img.faces, encs) THEN "true"
  ELSE "false"

\* variant: what the try block raises leaves the function
image_matcher_uncaught(img, encs, names) ==
  IF img.kind = "none" THEN "false" ELSE MatchBody(img, encs)

\* detect_known_faces_in_image as a whole: how the call ends ("true", "false",
\* or "raise" when an exception leaves it)
image_matcher(img, encs, names) ==
  IF img.kind = "none" THEN "false"              \* if image is None: return False
  ELSE IF MatchBody(img, encs) = "raise" THEN "false"   \* except Exception
  ELSE MatchBody(img, encs)

\* the boolean process_video gets from the call
detect_known_faces_in_image(img, encs, names) ==
  image_matcher(img, encs, names) = "true"

----------------------------------------------------------------------------
(* Known-face gallery loader *)

IsImageName(f) == f.ext \in {".jpg", ".jpeg", ".png"}

\* variant: the extension is compared as it is written
LowerIdentity(ext) == ext

\* str.lower() of the extensions that occur
Lower(ext) == IF ext = ".PNG" THEN ".png" ELSE IF ext = ".JPG" THEN ".jpg" ELSE ext

Usable(f) == IsImageName([f EXCEPT !.ext = Lower(f.ext)]) /\ f.encodings # <<>>

RECURSIVE LoadEncodings(_)
LoadEncodings(listing) ==
  IF listing = <<>> THEN <<>>
  ELSE IF Usable(Head(listing))
       THEN <<Head(listing).encodings[1]>> \o LoadEncodings(Tail(listing))
       ELSE LoadEncodings(Tail(listing))

RECURSIVE LoadNames(_)
LoadNames(listing) ==
  IF listing = <<>> THEN <<>>
  ELSE IF Usable(Head(listing))
       THEN <<Head(listing).stem>> \o LoadNames(Tail(listing))
       ELSE LoadNames(Tail(listing))

Missing == [exists |-> FALSE, listing |-> <<>>]

load_known_faces(dir) ==
  IF ~dir.exists THEN <<<<>>, <<>>>>
  ELSE <<LoadEncodings(dir.listing), LoadNames(dir.listing)>>

Dir(listing) == [exists |-> TRUE, listing |-> listing]

FileP == [stem |-> "p", ext |-> ".jpg", encodings |-> <<0>>]
FileQ == [stem |-> "q", ext |-> ".PNG", encodings |-> <<>>]
FileR == [stem |-> "r", ext |-> ".txt", encodings |-> <<0>>]
FileS == [stem |-> "s", ext |-> ".jpeg", encodings |-> <<91, 0>>]
FileT == [stem |-> "t", ext |-> ".JPG", encodings |-> <<50>>]

\* the known_faces directories a full run starts from
KnownDirs ==
  { Missing, Dir(<<>>), Dir(<<FileQ>>), Dir(<<FileR>>), Dir(<<FileQ, FileS>>) }

----------------------------------------------------------------------------
(* Input records and the per-video log *)

RecA == [video_id |-> "a", channel_id |-> "c"]
RecB == [video_id |-> "b", channel_id |-> "c"]
RecNoChannel == [video_id |-> "a"]
RecNoVideo == [channel_id |-> "c"]
RecordSet == {RecA, RecB, RecNoChannel, RecNoVideo}

NoHist ==
  [ calls |-> {},            \* external capabilities called for this video
    checks |-> {},           \* <<check, verdict>> of every matcher call made
    fetches |-> 0,           \* ydl.download invocations of download_video
    dl_raised |-> TRUE,      \* every ydl.download invocation so far raised
    meta |-> "pending",      \* how get_video_and_channel_info ended
    thumb_resolved |-> "",   \* thumbnail URL the last videos().list gave
    chan_failed |-> TRUE,    \* every attempt so far failed in channels().list
    raised |-> "none",       \* what reached the except clause of process_video
    caught |-> FALSE,        \* the frame matcher ended in its except clause
    step |-> <<>>,           \* the last sampling step of extract_frames
    scan |-> <<>> ]          \* the last detector call of the frame matcher

AllFalse(vid) ==
  [ video_id |-> vid,
    has_known_face_in_thumbnail |-> FALSE,
    has_known_face_in_avatar |-> FALSE,
    has_known_face_in_video |-> FALSE ]

Result(vid, t, a, v) ==
  [ video_id |-> vid,
    has_known_face_in_thumbnail |-> t,
    has_known_face_in_avatar |-> a,
    has_known_face_in_video |-> v ]

NoFiles == [p \in {} |-> NoCap]

\* os.path.join(temp_dir, f"{video_id}.mp4")
output_path(vid) == vid \o ".mp4"

\* variant: the file is left where it is
os_remove_skipped(fs, path) == fs

\* os.remove(path)
os_remove(fs, path) == [p \in (DOMAIN fs) \ {path} |-> fs[p]]

\* yt-dlp writing the downloaded video to path
WriteFile(fs, path, video) ==
  [p \in (DOMAIN fs) \cup {path} |-> IF p = path THEN video ELSE fs[p]]

Locals ==
  <<video_id, thumbnail_url, avatar_url, has_thumb, has_avatar, has_video,
    video_path, attempt, cap, frame_count, frames, timestamps, fi>>

MainVars ==
  <<pc, known_faces_dir, known_face_encodings, known_face_names, videos, idx,
    results, output, temp_dir, files>>

ResetLocals ==
  /\ video_id' = None
  /\ thumbnail_url' = ""
  /\ avatar_url' = ""
  /\ has_thumb' = FALSE
  /\ has_avatar' = FALSE
  /\ has_video' = FALSE
  /\ video_path' = None
  /\ attempt' = 0
  /\ cap' = NoCap
  /\ frame_count' = 0
  /\ frames' = <<>>
  /\ timestamps' = <<>>
  /\ fi' = 0

Init ==
  /\ pc = "start"
  /\ known_faces_dir \in KnownDirs
  /\ known_face_encodings = <<>>
  /\ known_face_names = <<>>
  /\ videos \in SeqsUpTo(RecordSet, MaxVideos)
  /\ idx = 0
  /\ results = <<>>
  /\ output = NoResult
  /\ temp_dir = FALSE
  /\ files = NoFiles
  /\ pv = "idle"
  /\ video_id = None
  /\ thumbnail_url = ""
  /\ avatar_url = ""
  /\ has_thumb = FALSE
  /\ has_avatar = FALSE
  /\ has_video = FALSE
  /\ video_path = None
  /\ ret = NoResult
  /\ attempt = 0
  /\ cap = NoCap
  /\ frame_count = 0
  /\ frames = <<>>
  /\ timestamps = <<>>
  /\ fi = 0
  /\ hist = NoHist
  /\ image = NoImage
  /\ matched = "pending"

----------------------------------------------------------------------------
(* main *)

\* variant: main goes on with whatever the loader returned
GalleryEmptyIgnored(encs) == FALSE

\* the gallery test of main: "if not known_face_encodings: return"
GalleryEmpty(encs) == encs = <<>>

\* lines 301-311: load the gallery, stop on an empty one, else make the temp
\* directory and read the input list
LoadKnownFaces ==
  /\ pc = "start"
  /\ LET g == load_known_faces(known_faces_dir) IN
       /\ known_face_encodings' = g[1]
       /\ known_face_names' = g[2]
       /\ IF GalleryEmpty(g[1])
          THEN /\ pc' = "done"
               /\ UNCHANGED <<temp_dir, idx>>
          ELSE /\ pc' = "loop"
               /\ temp_dir' = TRUE
               /\ idx' = 1
  /\ UNCHANGED <<known_faces_dir, videos, results, output, files, pv, ret, hist>>
  /\ UNCHANGED Locals
  /\ UNCHANGED <<image, matched>>

\* variant: the temp directory is left behind
RmTreeSkipped ==
  /\ temp_dir' = temp_dir
  /\ files' = files

\* the finally clause of main: shutil.rmtree(temp_dir)
RmTree ==
  /\ temp_dir' = FALSE
  /\ files' = NoFiles

\* lines 251-253 with both keys present: process_video enters its try block
ProcessVideoStart ==
  /\ pc = "loop" /\ pv = "idle" /\ idx <= Len(videos)
  /\ {"video_id", "channel_id"} \subseteq DOMAIN videos[idx]
  /\ video_id' = videos[idx].video_id
  /\ pv' = "meta"
  /\ attempt' = 0
  /\ hist' = NoHist
  /\ UNCHANGED MainVars
  /\ UNCHANGED <<thumbnail_url, avatar_url, has_thumb, has_avatar, has_video,
                 video_path, ret, cap, frame_count, frames, timestamps, fi>>
  /\ UNCHANGED <<image, matched>>

\* lines 251-252 raise KeyError outside the try block of process_video: the
\* except clause of main logs it, the finally clause removes the temp directory
\* and main returns without writing the results
ProcessVideoKeyError ==
  /\ pc = "loop" /\ pv = "idle" /\ idx <= Len(videos)
  /\ ~({"video_id", "channel_id"} \subseteq DOMAIN videos[idx])
  /\ hist' = [NoHist EXCEPT !.raised = "record"]
  /\ RmTree
  /\ pc' = "done"
  /\ UNCHANGED <<known_faces_dir, known_face_encodings, known_face_names,
                 videos, idx, results, output, pv, ret>>
  /\ UNCHANGED Locals
  /\ UNCHANGED <<image, matched>>

\* variant: the result is put in front of the earlier ones
MainAppendFront ==
  /\ pc = "loop" /\ pv = "returned"
  /\ results' = <<ret>> \o results
  /\ idx' = idx + 1
  /\ pv' = "idle"
  /\ ret' = NoResult
  /\ hist' = NoHist
  /\ ResetLocals
  /\ UNCHANGED <<pc, known_faces_dir, known_face_encodings, known_face_names,
                 videos, output, temp_dir, files>>
  /\ UNCHANGED <<image, matched>>

\* line 316: results.append(result), and the next iteration
MainAppend ==
  /\ pc = "loop" /\ pv = "returned"
  /\ results' = Append(results, ret)
  /\ idx' = idx + 1
  /\ pv' = "idle"
  /\ ret' = NoResult
  /\ hist' = NoHist
  /\ ResetLocals
  /\ UNCHANGED <<pc, known_faces_dir, known_face_encodings, known_face_names,
                 videos, output, temp_dir, files>>
  /\ UNCHANGED <<image, matched>>

\* lines 318-326: the loop is over, the results are written, the temp
\* directory is removed
WriteResults ==
  /\ pc = "loop" /\ pv = "idle" /\ idx > Len(videos)
  /\ output' = [kind |-> "written", records |-> results]
  /\ RmTree
  /\ pc' = "done"
  /\ UNCHANGED <<known_faces_dir, known_face_encodings, known_face_names,
                 videos, idx, results, pv, ret, hist>>
  /\ UNCHANGED Locals
  /\ UNCHANGED <<image, matched>>

\* KeyboardInterrupt while a video is processed: no "except Exception" catches
\* it, the frames of process_video and its callees are unwound, the finally
\* clause of main runs and the interrupt leaves main
Interrupt ==
  /\ pc = "loop" /\ pv \notin {"idle"}
  /\ RmTree
  /\ pc' = "interrupted"
  /\ pv' = "idle"
  /\ ret' = NoResult
  /\ hist' = [NoHist EXCEPT !.raised =
                IF video_path \in DOMAIN files THEN "interrupt_with_file"
                                               ELSE "interrupt"]
  /\ ResetLocals
  /\ UNCHANGED <<known_faces_dir, known_face_encodings, known_face_names,
                 videos, idx, results, output>>
  /\ UNCHANGED <<image, matched>>

----------------------------------------------------------------------------
(* process_video: resolve media, thumbnail check, avatar check *)

\* variant: one pass too many
InRangeOffByOne(a, n) == a <= n

\* "for attempt in range(retries)": the loop goes on while attempt < retries
InRange(a, n) == a < n

\* Python truthiness of a URL or path: '' and None are false
Truthy(x) == x # "" /\ x # None

\* the except clause of process_video (lines 287-294)
ExceptReturn(h, what) ==
  /\ ret' = AllFalse(video_id)
  /\ pv' = "returned"
  /\ hist' = [h EXCEPT !.raised = what]

\* one pass of the retry loop of get_video_and_channel_info (lines 229-247);
\* the two API calls answer, raise HttpError, or raise something else
GetInfoAttempt ==
  /\ pc = "loop" /\ pv = "meta"
  /\ \E outcome \in {"ok", "http_video", "http_channel", "error_video", "error_channel"},
        turl \in {"", "t.jpg"}, aurl \in {"", "a.jpg"} :
       LET h == [hist EXCEPT
                   !.calls = @ \cup {"metadata"},
                   !.thumb_resolved =
                      IF outcome \in {"http_video", "error_video"} THEN "" ELSE turl,
                   !.chan_failed = @ /\ outcome = "http_channel"]
       IN
       CASE outcome = "ok" ->
              /\ thumbnail_url' = turl
              /\ avatar_url' = aurl
              /\ pv' = "thumb"
              /\ hist' = [h EXCEPT !.meta = "resolved"]
              /\ attempt' = 0
              /\ UNCHANGED ret
         [] outcome \in {"http_video", "http_channel"} ->
              /\ IF InRange(attempt + 1, retries)
                 THEN /\ attempt' = attempt + 1
                      /\ hist' = h
                      /\ UNCHANGED <<thumbnail_url, avatar_url, pv>>
                 ELSE /\ thumbnail_url' = ""          \* return '', ''
                      /\ avatar_url' = ""
                      /\ pv' = "thumb"
                      /\ attempt' = 0
                      /\ hist' = [h EXCEPT !.meta = "exhausted"]
              /\ UNCHANGED ret
         [] OTHER ->
              \* not an HttpError: it leaves get_video_and_channel_info
              /\ ExceptReturn([h EXCEPT !.meta = "raised"], "metadata")
              /\ attempt' = 0
              /\ UNCHANGED <<thumbnail_url, avatar_url>>
  /\ UNCHANGED MainVars
  /\ UNCHANGED <<video_id, has_thumb, has_avatar, has_video, video_path, cap,
                 frame_count, frames, timestamps, fi>>
  /\ UNCHANGED <<image, matched>>

\* download_image: the decoded image, or None on any failure
ImageFetches == ImageSet \cup {NoImage}

\* variant: a face that matched is added to the gallery
ThumbnailCheckLearning ==
  /\ pc = "loop" /\ pv = "thumb"
  /\ IF Truthy(thumbnail_url)
     THEN \E img \in ImageFetches :
            LET found == detect_known_faces_in_image(
                            img, known_face_encodings, known_face_names)
            IN /\ has_thumb' = found
               /\ known_face_encodings' =
                    IF found THEN Append(known_face_encodings, img.faces[1].enc)
                             ELSE known_face_encodings
               /\ known_face_names' =
                    IF found THEN Append(known_face_names, video_id)
                             ELSE known_face_names
               /\ hist' = [hist EXCEPT !.calls = @ \cup {"image"},
                                       !.checks = @ \cup {<<"thumbnail", found>>}]
     ELSE /\ has_thumb' = FALSE
          /\ hist' = hist
          /\ UNCHANGED <<known_face_encodings, known_face_names>>
  /\ pv' = "avatar"
  /\ UNCHANGED <<pc, known_faces_dir, videos, idx, results, output, temp_dir, files>>
  /\ UNCHANGED <<video_id, thumbnail_url, avatar_url, has_avatar, has_video,
                 video_path, ret, attempt, cap, frame_count, frames, timestamps, fi>>
  /\ UNCHANGED <<image, matched>>

\* lines 258-261
ThumbnailCheck ==
  /\ pc = "loop" /\ pv = "thumb"
  /\ IF Truthy(thumbnail_url)
     THEN \E img \in ImageFetches :
            LET found == detect_known_faces_in_image(
                            img, known_face_encodings, known_face_names)
            IN /\ has_thumb' = found
               /\ hist' = [hist EXCEPT !.calls = @ \cup {"image"},
                                       !.checks = @ \cup {<<"thumbnail", found>>}]
     ELSE /\ has_thumb' = FALSE
          /\ hist' = hist
  /\ pv' = "avatar"
  /\ UNCHANGED MainVars
  /\ UNCHANGED <<video_id, thumbnail_url, avatar_url, has_avatar, has_video,
                 video_path, ret, attempt, cap, frame_count, frames, timestamps, fi>>
  /\ UNCHANGED <<image, matched>>

\* variant: the avatar is not looked at once the thumbnail has matched
AvatarCheckShortCircuit ==
  /\ pc = "loop" /\ pv = "avatar"
  /\ IF Truthy(avatar_url) /\ ~has_thumb
     THEN \E img \in ImageFetches :
            LET found == detect_known_faces_in_image(
                            img, known_face_encodings, known_face_names)
            IN /\ has_avatar' = found
               /\ hist' = [hist EXCEPT !.calls = @ \cup {"image"},
                                       !.checks = @ \cup {<<"avatar", found>>}]
     ELSE /\ has_avatar' = FALSE
          /\ hist' = hist
  /\ pv' = "download"
  /\ has_video' = FALSE
  /\ UNCHANGED MainVars
  /\ UNCHANGED <<video_id, thumbnail_url, avatar_url, has_thumb, video_path,
                 ret, attempt, cap, frame_count, frames, timestamps, fi>>
  /\ UNCHANGED <<image, matched>>

\* lines 263-268
AvatarCheck ==
  /\ pc = "loop" /\ pv = "avatar"
  /\ IF Truthy(avatar_url)
     THEN \E img \in ImageFetches :
            LET found == detect_known_faces_in_image(
                            img, known_face_encodings, known_face_names)
            IN /\ has_avatar' = found
               /\ hist' = [hist EXCEPT !.calls = @ \cup {"image"},
                                       !.checks = @ \cup {<<"avatar", found>>}]
     ELSE /\ has_avatar' = FALSE
          /\ hist' = hist
  /\ pv' = "download"
  /\ has_video' = FALSE
  /\ UNCHANGED MainVars
  /\ UNCHANGED <<video_id, thumbnail_url, avatar_url, has_thumb, video_path,
                 ret, attempt, cap, frame_count, frames, timestamps, fi>>
  /\ UNCHANGED <<image, matched>>

----------------------------------------------------------------------------
(* download_video and what process_video does with its return value *)

Video(fps, total) == [opened |-> FALSE, released |-> FALSE, fps |-> fps, total |-> total]

\* the videos yt-dlp delivers in a full run: frame rate in hundredths of a
\* frame per second, and the frame count
PipeVideos == {Video(150, t) : t \in {0, PipeFrames}}

\* variant: the path is used without the test
SkipVideoCheckNever(path) == FALSE

\* "if video_path:" of process_video, line 270
SkipVideoCheck(path) == ~Truthy(path)

\* lines 269-270 and, when the path is None, 276-286
AfterDownload(path) ==
  /\ video_path' = path
  /\ attempt' = 0
  /\ IF SkipVideoCheck(path)
     THEN /\ ret' = Result(video_id, has_thumb, has_avatar, has_video)
          /\ pv' = "returned"
     ELSE /\ pv' = "extract"
          /\ ret' = ret

\* one pass of the retry loop of download_video (lines 203-224): ydl.download
\* raises, or ends having written the file, or ends without the file
DownloadAttempt ==
  /\ pc = "loop" /\ pv = "download"
  /\ \E outcome \in {"raise", "file", "nofile"}, video \in PipeVideos :
       LET path == output_path(video_id) IN
       /\ hist' = [hist EXCEPT !.calls = @ \cup {"video"},
                               !.fetches = @ + 1,
                               !.dl_raised = @ /\ outcome = "raise"]
       /\ CASE outcome = "raise" ->
                 /\ files' = files
                 /\ IF InRange(attempt + 1, retries)
                    THEN /\ attempt' = attempt + 1
                         /\ UNCHANGED <<video_path, ret, pv>>
                    ELSE AfterDownload(None)
            [] outcome = "file" ->
                 /\ files' = WriteFile(files, path, video)
                 /\ AfterDownload(path)
            [] OTHER ->
                 /\ files' = files
                 /\ AfterDownload(IF path \in DOMAIN files THEN path ELSE None)
  /\ UNCHANGED <<pc, known_faces_dir, known_face_encodings, known_face_names,
                 videos, idx, results, output, temp_dir>>
  /\ UNCHANGED <<video_id, thumbnail_url, avatar_url, has_thumb, has_avatar,
                 has_video, cap, frame_count, frames, timestamps, fi>>
  /\ UNCHANGED <<image, matched>>

----------------------------------------------------------------------------
(* Quality scorer and frame selector *)

\* a frame as cap.read() gives it: ret, and the two scores of the image
\* (variance of the Laplacian, standard deviation of the grey levels)
NoFrame == [ret |-> FALSE, sharp |-> 0, contrast |-> 0]
FrameReads ==
  {NoFrame} \cup [ret : {TRUE}, sharp : {100, 150, 200}, contrast : {20, 30}]

\* variant: the gate is applied with a threshold of 100
is_frame_blurry_100(frame) == frame.sharp < 100

is_frame_blurry(frame) == frame.sharp < BlurThreshold

has_low_contrast(frame) == frame.contrast < ContrastThreshold

\* frame_interval = int(fps * interval), fps in hundredths
frame_interval(fps) == PyInt(fps * interval, 10000)

\* look_around_frames = int(fps * look_around)
look_around_frames(fps) == PyInt(fps * look_around, 10000)

start_pos(p, w) == Max(0, p - w)
end_pos(p, w, total) == Min(total, p + w + 1)

NoBest(p) == [laplacian |-> -1, frame |-> NoFrame, pos |-> p]

\* the for loop of lines 134-144 from position pos on
RECURSIVE ScanFrom(_, _, _, _)
ScanFrom(win, pos, stop, best) ==
  IF pos >= stop THEN best
  ELSE ScanFrom(win, pos + 1, stop,
                IF win[pos].ret /\ win[pos].sharp > best.laplacian
                THEN [laplacian |-> win[pos].sharp, frame |-> win[pos], pos |-> pos]
                ELSE best)

\* variant: the target frame is taken without looking around
ScanWindowTargetOnly(win, p, w, total) ==
  IF win[p].ret THEN [laplacian |-> win[p].sharp, frame |-> win[p], pos |-> p]
  ELSE NoBest(p)

\* lines 128-144: the best frame of the window read around target frame p
ScanWindow(win, p, w, total) ==
  ScanFrom(win, start_pos(p, w), end_pos(p, w, total), NoBest(p))

\* best_frame_pos / fps, as an exact fraction of seconds
Timestamp(pos, fps) == [num |-> pos * 100, den |-> fps]

\* variant: a capture without frames raises before the try block is entered
ExtractOpenUnguarded ==
  /\ pc = "loop" /\ pv = "extract"
  /\ LET v == IF video_path \in DOMAIN files THEN files[video_path] ELSE NoCap IN
       /\ cap' = [opened |-> TRUE, released |-> FALSE, fps |-> v.fps, total |-> v.total]
       /\ IF v.total = 0
          THEN ExceptReturn([hist EXCEPT !.fetches = 0], "extract")
          ELSE /\ pv' = "sample"
               /\ hist' = [hist EXCEPT !.fetches = 0]
               /\ ret' = ret
  /\ frames' = <<>>
  /\ timestamps' = <<>>
  /\ frame_count' = 0
  /\ UNCHANGED MainVars
  /\ UNCHANGED <<video_id, thumbnail_url, avatar_url, has_thumb, has_avatar,
                 has_video, video_path, attempt, fi>>
  /\ UNCHANGED <<image, matched>>

\* lines 110-117: open the capture and read its properties; a file that
\* cannot be opened reports 0 for both
ExtractOpen ==
  /\ pc = "loop" /\ pv = "extract"
  /\ LET v == IF video_path \in DOMAIN files THEN files[video_path] ELSE NoCap IN
       cap' = [opened |-> TRUE, released |-> FALSE, fps |-> v.fps, total |-> v.total]
  /\ frames' = <<>>
  /\ timestamps' = <<>>
  /\ frame_count' = 0
  /\ pv' = "sample"
  /\ hist' = [hist EXCEPT !.fetches = 0]   \* the log of download_video ends here
  /\ UNCHANGED MainVars
  /\ UNCHANGED <<video_id, thumbnail_url, avatar_url, has_thumb, has_avatar,
                 has_video, video_path, ret, attempt, fi>>
  /\ UNCHANGED <<image, matched>>

\* lines 159-161: cap.release() and return frames, timestamps
ReleaseAndReturn ==
  /\ cap' = [cap EXCEPT !.released = TRUE]
  /\ frame_count' = 0
  /\ pv' = "detect"
  /\ fi' = 0

\* the except clause of extract_frames, lines 162-164: return [], []
ExtractExcept ==
  /\ frames' = <<>>
  /\ timestamps' = <<>>
  /\ cap' = cap
  /\ frame_count' = 0
  /\ pv' = "detect"
  /\ fi' = 0

\* one pass of the while loop, lines 119-157; the decoder's answers for the
\* positions of the window are chosen here
ExtractStep ==
  /\ pc = "loop" /\ pv = "sample"
  /\ frame_count < cap.total
  /\ frame_interval(cap.fps) > 0 \/ Len(frames) < MaxEmit
  /\ LET p == frame_count
         w == look_around_frames(cap.fps)
     IN
     \E win \in [start_pos(p, w)..(end_pos(p, w, cap.total) - 1) -> FrameReads] :
       LET best == ScanWindow(win, p, w, cap.total)
           h == [hist EXCEPT !.step = <<[p |-> p, win |-> win, best |-> best]>>]
       IN
       IF ~win[p].ret
       THEN \* "if not ret: break"
            /\ ReleaseAndReturn
            /\ hist' = [hist EXCEPT !.step = <<>>]
            /\ UNCHANGED <<frames, timestamps>>
       ELSE IF best.frame.ret /\ cap.fps = 0
       THEN \* target_frame / fps or best_frame_pos / fps: ZeroDivisionError
            /\ ExtractExcept
            /\ hist' = [hist EXCEPT !.step = <<>>]
       ELSE /\ IF best.frame.ret /\ ~is_frame_blurry(best.frame)
                                 /\ ~has_low_contrast(best.frame)
               THEN /\ frames' = Append(frames, best.frame)
                    /\ timestamps' = Append(timestamps, Timestamp(best.pos, cap.fps))
               ELSE UNCHANGED <<frames, timestamps>>
            /\ frame_count' = frame_count + frame_interval(cap.fps)
            /\ hist' = h
            /\ UNCHANGED <<cap, pv, fi>>
  /\ UNCHANGED MainVars
  /\ UNCHANGED <<video_id, thumbnail_url, avatar_url, has_thumb, has_avatar,
                 has_video, video_path, ret, attempt>>
  /\ UNCHANGED <<image, matched>>

\* the while condition is false: lines 159-161
ExtractReturn ==
  /\ pc = "loop" /\ pv = "sample"
  /\ ~(frame_count < cap.total)
  /\ ReleaseAndReturn
  /\ hist' = [hist EXCEPT !.step = <<>>]
  /\ UNCHANGED MainVars
  /\ UNCHANGED <<video_id, thumbnail_url, avatar_url, has_thumb, has_avatar,
                 has_video, video_path, ret, attempt, frames, timestamps>>
  /\ UNCHANGED <<image, matched>>

\* an OpenCV call of the loop raises (cv2.error on a damaged frame)
ExtractError ==
  /\ pc = "loop" /\ pv = "sample"
  /\ frame_count < cap.total
  /\ ExtractExcept
  /\ hist' = [hist EXCEPT !.step = <<>>]
  /\ UNCHANGED MainVars
  /\ UNCHANGED <<video_id, thumbnail_url, avatar_url, has_thumb, has_avatar,
                 has_video, video_path, ret, attempt>>
  /\ UNCHANGED <<image, matched>>

----------------------------------------------------------------------------
(* detect_known_faces_in_frames, and the end of process_video *)

\* what the face detector answers for one frame: it raises, or gives faces
Detections ==
  [bad : {FALSE}, faces : SeqsUpTo(FaceSet, 2)] \cup {[bad |-> TRUE, faces |-> <<>>]}

\* the face the loop of lines 182-193 stops at: the first one that is not
\* skipped and matches, or the last one when none does
FacesTried(faces, encs) ==
  LET hit(i) == /\ ~TooSmall(faces[i])
                /\ \E j \in 1..Len(encs) : compare_faces(encs, faces[i].enc)[j]
  IN IF \E i \in 1..Len(faces) : hit(i)
     THEN CHOOSE i \in 1..Len(faces) : hit(i) /\ \A k \in 1..(i - 1) : ~hit(k)
     ELSE Len(faces)

\* the log after the detector was run on frame number i
Scanned(h, i, det) ==
  [h EXCEPT !.scan = <<[frame |-> i, faces |-> det.faces,
                        tried |-> FacesTried(det.faces, known_face_encodings)]>>]

\* variant: the verdict is returned once the last frame has been passed
DetectResultAtEnd(h, value) ==
  /\ has_video' = value
  /\ pv' = "remove"
  /\ fi' = Len(frames)
  /\ hist' = [h EXCEPT !.checks = @ \cup {<<"video", value>>}]

\* "return True" / "return False" of detect_known_faces_in_frames, assigned to
\* has_known_face_in_video at line 272
DetectResult(h, value) ==
  /\ has_video' = value
  /\ pv' = "remove"
  /\ fi' = fi
  /\ hist' = [h EXCEPT !.checks = @ \cup {<<"video", value>>}]

\* the except clause of detect_known_faces_in_frames, lines 196-198: the
\* failure is logged and False is returned
DetectExcept(h) ==
  /\ has_video' = FALSE
  /\ pv' = "remove"
  /\ fi' = fi
  /\ hist' = [h EXCEPT !.checks = @ \cup {<<"video", FALSE>>},
                       !.caught = TRUE]

\* "continue": on to the next frame
NextFrame(h) ==
  /\ fi' = fi + 1
  /\ hist' = h
  /\ UNCHANGED <<has_video, pv>>

\* one pass of the for loop over zip(frames, timestamps), lines 170-193
DetectFrame ==
  /\ pc = "loop" /\ pv = "detect"
  /\ fi < Min(Len(frames), Len(timestamps))
  /\ LET frame == frames[fi + 1] IN
       IF is_frame_blurry(frame) \/ has_low_contrast(frame)
       THEN NextFrame(hist)
       ELSE \E det \in Detections :
              IF det.bad THEN DetectExcept(Scanned(hist, fi + 1, det))
              ELSE IF det.faces # <<>> /\ FaceLoop(det.faces, known_face_encodings)
              THEN DetectResult(Scanned(hist, fi + 1, det), TRUE)
              ELSE NextFrame(Scanned(hist, fi + 1, det))
  /\ UNCHANGED MainVars
  /\ UNCHANGED <<video_id, thumbnail_url, avatar_url, has_thumb, has_avatar,
                 video_path, ret, attempt, cap, frame_count, frames, timestamps>>
  /\ UNCHANGED <<image, matched>>

\* the loop is over without a match, lines 194-195
DetectReturn ==
  /\ pc = "loop" /\ pv = "detect"
  /\ ~(fi < Min(Len(frames), Len(timestamps)))
  /\ DetectResult(hist, FALSE)
  /\ UNCHANGED MainVars
  /\ UNCHANGED <<video_id, thumbnail_url, avatar_url, has_thumb, has_avatar,
                 video_path, ret, attempt, cap, frame_count, frames, timestamps>>
  /\ UNCHANGED <<image, matched>>

\* lines 273-286: os.remove(video_path) and the result; when os.remove
\* raises, the except clause of lines 287-294
RemoveVideo ==
  /\ pc = "loop" /\ pv = "remove"
  /\ \E fails \in BOOLEAN :
       IF ~fails /\ video_path \in DOMAIN files
       THEN /\ files' = os_remove(files, video_path)
            /\ ret' = Result(video_id, has_thumb, has_avatar, has_video)
            /\ pv' = "returned"
            /\ hist' = [hist EXCEPT !.caught = FALSE, !.scan = <<>>]
       ELSE /\ files' = files
            /\ ExceptReturn([hist EXCEPT !.caught = FALSE, !.scan = <<>>], "remove")
  \* frames, timestamps and the callees' locals are not read again
  /\ frames' = <<>>
  /\ timestamps' = <<>>
  /\ fi' = 0
  /\ cap' = NoCap
  /\ UNCHANGED <<pc, known_faces_dir, known_face_encodings, known_face_names,
                 videos, idx, results, output, temp_dir>>
  /\ UNCHANGED <<video_id, thumbnail_url, avatar_url, has_thumb, has_avatar,
                 has_video, video_path, attempt, frame_count>>
  /\ UNCHANGED <<image, matched>>

----------------------------------------------------------------------------
(* The run of main *)

Next ==
  \/ LoadKnownFaces
  \/ ProcessVideoStart
  \/ ProcessVideoKeyError
  \/ GetInfoAttempt
  \/ ThumbnailCheck
  \/ AvatarCheck
  \/ DownloadAttempt
  \/ ExtractOpen
  \/ ExtractStep
  \/ ExtractReturn
  \/ ExtractError
  \/ DetectFrame
  \/ DetectReturn
  \/ RemoveVideo
  \/ MainAppend
  \/ WriteResults
  \/ Interrupt

Spec == Init /\ [][Next]_vars

----------------------------------------------------------------------------
(* extract_frames on its own: process_video has just downloaded a video of *)
(* any of the frame rates and lengths below and calls extract_frames       *)

FrameVideos == {Video(f, t) : f \in {0, 30, 150, 160, 400}, t \in 0..MaxFrames}

InitFrames ==
  /\ pc = "loop"
  /\ known_faces_dir = Dir(<<FileP>>)
  /\ known_face_encodings = load_known_faces(known_faces_dir)[1]
  /\ known_face_names = load_known_faces(known_faces_dir)[2]
  /\ videos = <<RecA>>
  /\ idx = 1
  /\ results = <<>>
  /\ output = NoResult
  /\ temp_dir = TRUE
  /\ \E v \in FrameVideos : files = WriteFile(NoFiles, output_path("a"), v)
  /\ pv = "extract"
  /\ video_id = "a"
  /\ thumbnail_url = ""
  /\ avatar_url = ""
  /\ has_thumb = FALSE
  /\ has_avatar = FALSE
  /\ has_video = FALSE
  /\ video_path = output_path("a")
  /\ ret = NoResult
  /\ attempt = 0
  /\ cap = NoCap
  /\ frame_count = 0
  /\ frames = <<>>
  /\ timestamps = <<>>
  /\ fi = 0
  /\ hist = [NoHist EXCEPT !.calls = {"metadata", "video"}, !.fetches = 1,
                           !.dl_raised = FALSE, !.meta = "resolved"]
  /\ image = NoImage
  /\ matched = "pending"

NextFrames == ExtractOpen \/ ExtractStep \/ ExtractReturn \/ ExtractError

SpecFrames == InitFrames /\ [][NextFrames]_vars

----------------------------------------------------------------------------
(* The two matchers on their own: process_video is about to call           *)
(* detect_known_faces_in_image on a fetched image (line 261), or           *)
(* detect_known_faces_in_frames on extracted frames (line 272)             *)

\* galleries <<0>>, <<91>> and <<0, 91>>
MatcherDirs == {Dir(<<FileP>>), Dir(<<FileQ, FileS>>), Dir(<<FileP, FileS>>)}

\* what download_image hands over: None, an image the detector fails on, or
\* an image with up to MaxFaces faces
MatcherImages ==
  [kind : {"image"}, bad : {FALSE}, faces : SeqsUpTo(MatcherFaces, MaxFaces)]
    \cup {[kind |-> "image", bad |-> TRUE, faces |-> <<>>], NoImage}

GoodFrame == [ret |-> TRUE, sharp |-> 150, contrast |-> 30]
BlurryFrame == [ret |-> TRUE, sharp |-> 100, contrast |-> 30]
MatcherFrames == SeqsUpTo({GoodFrame, BlurryFrame}, MaxEmit)

InitMatcher ==
  /\ pc = "loop"
  /\ known_faces_dir \in MatcherDirs
  /\ known_face_encodings = load_known_faces(known_faces_dir)[1]
  /\ known_face_names = load_known_faces(known_faces_dir)[2]
  /\ videos = <<RecA>>
  /\ idx = 1
  /\ results = <<>>
  /\ output = NoResult
  /\ temp_dir = TRUE
  /\ video_id = "a"
  /\ thumbnail_url = "t.jpg"
  /\ avatar_url = ""
  /\ has_thumb = FALSE
  /\ has_avatar = FALSE
  /\ has_video = FALSE
  /\ ret = NoResult
  /\ attempt = 0
  /\ cap = NoCap
  /\ frame_count = 0
  /\ fi = 0
  /\ matched = "pending"
  /\ \/ /\ pv = "thumb"
        /\ image \in MatcherImages
        /\ files = NoFiles
        /\ video_path = None
        /\ frames = <<>>
        /\ hist = [NoHist EXCEPT !.calls = {"metadata", "image"}, !.meta = "resolved"]
     \/ /\ pv = "detect"
        /\ image = NoImage
        /\ files = WriteFile(NoFiles, output_path("a"), Video(150, PipeFrames))
        /\ video_path = output_path("a")
        /\ frames \in MatcherFrames
        /\ hist = [NoHist EXCEPT !.calls = {"metadata", "video"},
                                 !.dl_raised = FALSE, !.meta = "resolved"]
  /\ timestamps = [i \in 1..Len(frames) |-> Timestamp(i - 1, 150)]

\* the call of line 261 and how it ends
MatchImage ==
  /\ pc = "loop" /\ pv = "thumb" /\ matched = "pending"
  /\ matched' = image_matcher(image, known_face_encodings, known_face_names)
  /\ UNCHANGED MainVars
  /\ UNCHANGED Locals
  /\ UNCHANGED <<pv, ret, hist, image>>

NextMatcher == MatchImage \/ DetectFrame \/ DetectReturn

SpecMatcher == InitMatcher /\ [][NextMatcher]_vars

----------------------------------------------------------------------------
(* load_known_faces on its own: main starts with a known_faces directory   *)
(* holding any choice of the five files, in any listing order              *)

GalleryFiles == {FileP, FileQ, FileR, FileS, FileT}

\* os.listdir: every name once
Listings ==
  {l \in SeqsUpTo(GalleryFiles, MaxFiles) :
     \A i, j \in 1..Len(l) : i # j => l[i] # l[j]}

GalleryDirs == {Missing} \cup {Dir(l) : l \in Listings}

InitGallery ==
  /\ pc = "start"
  /\ known_faces_dir \in GalleryDirs
  /\ known_face_encodings = <<>>
  /\ known_face_names = <<>>
  /\ videos = <<>>
  /\ idx = 0
  /\ results = <<>>
  /\ output = NoResult
  /\ temp_dir = FALSE
  /\ files = NoFiles
  /\ pv = "idle"
  /\ video_id = None
  /\ thumbnail_url = ""
  /\ avatar_url = ""
  /\ has_thumb = FALSE
  /\ has_avatar = FALSE
  /\ has_video = FALSE
  /\ video_path = None
  /\ ret = NoResult
  /\ attempt = 0
  /\ cap = NoCap
  /\ frame_count = 0
  /\ frames = <<>>
  /\ timestamps = <<>>
  /\ fi = 0
  /\ hist = NoHist
  /\ image = NoImage
  /\ matched = "pending"

NextGallery == LoadKnownFaces

SpecGallery == InitGallery /\ [][NextGallery]_vars

----------------------------------------------------------------------------
(* Properties *)

Ran(check) == \E v \in BOOLEAN : <<check, v>> \in hist.checks
Verdict(check) == <<check, TRUE>> \in hist.checks

\* C1: when process_video returns for a video whose download gave a local
\* file, that file is gone (match, no match, or a failure inside a step after
\* the download), unless os.remove itself failed
C1_TempFileRemoved ==
  (pv = "returned" /\ video_path # None /\ hist.raised # "remove")
     => video_path \notin DOMAIN files

C1_Witness ==
  /\ pv = "returned" /\ video_path # None /\ hist.raised = "none"
  /\ ret.has_known_face_in_video
  /\ video_path \notin DOMAIN files

\* C2: with a non-empty gallery, a finished run over N records (each with a
\* video_id) has written exactly N results, the i-th carrying the i-th
\* record's video_id
C2_OneResultPerRecord ==
  ( /\ pc = "done"
    /\ known_face_encodings # <<>>
    /\ \A i \in 1..Len(videos) : "video_id" \in DOMAIN videos[i] )
  => /\ output.kind = "written"
     /\ Len(output.records) = Len(videos)
     /\ \A i \in 1..Len(videos) : output.records[i].video_id = videos[i].video_id

\* C3: a failure raised while a video is processed (reading the record,
\* metadata, deleting the file) ends in process_video returning the all-false
\* result of that video, with main still in its loop
C3_FailureIsolated ==
  hist.raised \in {"record", "metadata", "remove"}
  => /\ pc = "loop"
     /\ pv = "returned"
     /\ ret = AllFalse(videos[idx].video_id)

\* C4: on a return of process_video that did not go through its except
\* clause, each of the three checks ran exactly when its input was there
\* (URL, URL, downloaded file), whatever the earlier checks found, and each
\* boolean of the result is the verdict of its own check
C4_ChecksIndependent ==
  (pv = "returned" /\ hist.raised = "none")
  => /\ Ran("thumbnail") <=> Truthy(thumbnail_url)
     /\ Ran("avatar") <=> Truthy(avatar_url)
     /\ Ran("video") <=> Truthy(video_path)
     /\ ret = Result(video_id, Verdict("thumbnail"), Verdict("avatar"), Verdict("video"))

C4_Witness ==
  /\ pv = "returned" /\ hist.raised = "none"
  /\ hist.checks = {<<"thumbnail", FALSE>>, <<"avatar", TRUE>>, <<"video", FALSE>>}
  /\ ret = Result(video_id, FALSE, TRUE, FALSE)

\* the directory is missing or none of its files is an image with a face
NoUsableEntry(dir) ==
  ~dir.exists \/ \A i \in 1..Len(dir.listing) : ~Usable(dir.listing[i])

\* C5: with a missing directory or one without a usable entry, main gets an
\* empty gallery and no video is ever started: no call of a capability, no
\* temp directory, no result, no output
C5_EmptyGalleryStops ==
  NoUsableEntry(known_faces_dir)
  => /\ pc \in {"start", "done"}
     /\ known_face_encodings = <<>>
     /\ pv = "idle" /\ idx = 0
     /\ hist.calls = {} /\ hist.checks = {}
     /\ results = <<>> /\ output = NoResult /\ ret = NoResult
     /\ ~temp_dir /\ files = NoFiles

C5_Witness ==
  /\ pc = "done"
  /\ known_faces_dir.exists /\ known_faces_dir.listing # <<>>
  /\ NoUsableEntry(known_faces_dir)
  /\ videos # <<>>

\* C6: when every ydl.download call of a download_video call raised, the call
\* has made exactly `retries` of them once it is over, makes no more, and
\* process_video has None from it without anything raised
C6_DownloadRetries ==
  /\ (pv = "download" /\ hist.dl_raised) => hist.fetches = attempt /\ attempt < retries
  /\ (pv # "download" /\ hist.dl_raised /\ hist.fetches > 0)
       => /\ hist.fetches = 3
          /\ video_path = None
          /\ pv = "returned" /\ hist.raised = "none"

C6_Witness ==
  /\ pv = "returned" /\ hist.dl_raised /\ hist.fetches = 3
  /\ video_path = None

\* C7: when download_video gave None, process_video returns normally, the
\* video check was not run and its boolean is false, the thumbnail and avatar
\* booleans are their own verdicts; without URLs the result is all false
C7_NullDownloadSkipsVideoCheck ==
  (pv = "returned" /\ "video" \in hist.calls /\ video_path = None)
  => /\ hist.raised = "none"
     /\ ~Ran("video")
     /\ ret = Result(video_id, Verdict("thumbnail"), Verdict("avatar"), FALSE)
     /\ (thumbnail_url = "" /\ avatar_url = "") => ret = AllFalse(video_id)

C7_Witness ==
  /\ pv = "returned" /\ "video" \in hist.calls /\ video_path = None
  /\ ret.has_known_face_in_thumbnail /\ ~ret.has_known_face_in_avatar
  /\ Ran("avatar")

\* C8: when every attempt failed in the channel call (the thumbnail having
\* been resolved each time), the thumbnail URL process_video goes on with is
\* the resolved one
C8_OnlyFailedUrlAbsent ==
  (hist.meta = "exhausted" /\ hist.chan_failed)
  => thumbnail_url = hist.thumb_resolved

\* C9: no frame of the output of extract_frames is blurry (sharpness < 150)
\* or low-contrast (contrast < 30)
C9_EmittedFramesPassGates ==
  /\ Len(frames) = Len(timestamps)
  /\ \A i \in 1..Len(frames) : frames[i].sharp >= 150 /\ frames[i].contrast >= 30

C9_Witness ==
  /\ pv = "sample" /\ Len(frames) = 2 /\ hist.step # <<>>
  /\ hist.step[1].best.frame.sharp = 200
  /\ hist.step[1].best.frame.contrast = 20

\* C10: the representative of step position p is a readable frame of
\* [p - w, p + w] clamped to [0, total_frames - 1], every frame of that range
\* was read, none is sharper, and when it passes the gates it is the last
\* frame emitted, with timestamp (its own position) / fps
C10_SharpestOfWindow ==
  hist.step # <<>> =>
    LET st == hist.step[1]
        w == look_around_frames(cap.fps)
        lo == Max(0, st.p - w)
        hi == Min(cap.total - 1, st.p + w)
    IN /\ DOMAIN st.win = lo..hi
       /\ st.best.pos \in lo..hi
       /\ st.win[st.best.pos].ret
       /\ st.best.frame = st.win[st.best.pos]
       /\ \A q \in lo..hi : st.win[q].ret => st.win[q].sharp <= st.best.frame.sharp
       /\ (st.best.frame.sharp >= 150 /\ st.best.frame.contrast >= 30)
            => /\ frames # <<>>
               /\ frames[Len(frames)] = st.best.frame
               /\ timestamps[Len(timestamps)] = [num |-> st.best.pos * 100, den |-> cap.fps]

C10_Witness ==
  /\ hist.step # <<>>
  /\ hist.step[1].p > 0
  /\ hist.step[1].best.pos = hist.step[1].p + 1
  /\ hist.step[1].win[hist.step[1].p].sharp = 150
  /\ frames # <<>>
  /\ timestamps[Len(timestamps)].num = (hist.step[1].p + 1) * 100

\* C11: detect_known_faces_in_image answers true exactly when the image has a
\* detected face at least 40 wide and 40 high whose embedding is within 0.45
\* of a gallery entry; no face, only smaller faces, or no face near the
\* gallery give false
C11_MatchIffLargeKnownFace ==
  matched # "pending" =>
    ( matched = "true"
      <=> /\ image.kind = "image"
          /\ \E i \in 1..Len(image.faces) :
                /\ image.faces[i].width >= 40
                /\ image.faces[i].height >= 40
                /\ \E j \in 1..Len(known_face_encodings) :
                      /\ known_face_encodings[j] - image.faces[i].enc <= 45
                      /\ image.faces[i].enc - known_face_encodings[j] <= 45 )

C11_Witness ==
  /\ matched = "true"
  /\ image.faces = <<Face(39, 40, 46), Face(40, 40, 46)>>
  /\ known_face_encodings = <<0, 91>>

\* C12: neither matcher lets an exception out: the image matcher ends in
\* true or false, in false for an absent image and for an image the detector
\* fails on; the frame matcher returns to process_video, with false when a
\* failure was caught inside it
C12_MatcherNeverRaises ==
  /\ matched \in {"pending", "true", "false"}
  /\ (matched # "pending" /\ (image.kind = "none" \/ image.bad)) => matched = "false"
  /\ pv \in {"thumb", "detect", "remove"}
  /\ hist.raised = "none"
  /\ hist.caught => (pv = "remove" /\ ~has_video)

C12_Witness ==
  /\ pv = "remove" /\ hist.caught /\ fi = 1 /\ frames = <<GoodFrame, GoodFrame>>

\* C13: once load_known_faces has returned, the gallery has one entry per
\* file of the directory that has an image extension (.jpg, .jpeg, .png, in
\* either case) and at least one face, in listing order: the first face's
\* embedding and the file name without its extension at the same index; the
\* other files add nothing, and a missing directory gives two empty lists
C13_GalleryOnePerUsableFile ==
  pc # "start" =>
    LET listing == known_faces_dir.listing
        used == {i \in 1..Len(listing) :
                   /\ known_faces_dir.exists
                   /\ listing[i].ext \in {".jpg", ".jpeg", ".png", ".JPG", ".PNG"}
                   /\ Len(listing[i].encodings) >= 1}
        at(i) == Cardinality({j \in used : j <= i})
    IN /\ Len(known_face_encodings) = Cardinality(used)
       /\ Len(known_face_names) = Len(known_face_encodings)
       /\ \A i \in used :
             /\ known_face_names[at(i)] = listing[i].stem
             /\ known_face_encodings[at(i)] = listing[i].encodings[1]

C13_Witness ==
  /\ pc = "loop"
  /\ known_faces_dir.listing = <<FileQ, FileS, FileT>>
  /\ known_face_names = <<"s", "t">>
  /\ known_face_encodings = <<91, 50>>

\* C15: no matcher is called and no video is started before load_known_faces
\* has returned, and from then on, whatever is matched, the gallery is what
\* the loader built from the directory
C15_GalleryBuiltThenFixed ==
  /\ pc = "start" => (pv = "idle" /\ hist.calls = {} /\ hist.checks = {})
  /\ pc # "start" =>
       /\ known_face_encodings = load_known_faces(known_faces_dir)[1]
       /\ known_face_names = load_known_faces(known_faces_dir)[2]

C15_Witness ==
  /\ pc = "loop" /\ idx = 2 /\ pv = "remove"
  /\ results[1].has_known_face_in_thumbnail
  /\ has_thumb /\ has_avatar /\ has_video
  /\ known_face_encodings = <<91>>

C17_StepAdvances ==
  (pv = "sample" /\ hist.step # <<>>) => frame_count > hist.step[1].p

\* Python round() of a non-negative num / den: to nearest, halves to even
PyRound(num, den) ==
  LET q == num \div den
      r == num % den
  IN IF 2 * r > den THEN q + 1
     ELSE IF 2 * r < den THEN q
     ELSE IF q % 2 = 0 THEN q ELSE q + 1

\* C18: with step = round(fps * interval) at least 1, the number of frames
\* extract_frames has collected is at most total_frames / step
C18_SamplesAtMostTotalOverStep ==
  LET step == PyRound(cap.fps * 250, 10000) IN
  step >= 1 => Len(frames) * step <= cap.total

\* C19: the pass after the one at step position p is at p + s with
\* s = round(fps * interval) (the positions are 0, s, 2s, ...), and the frames
\* read around p are those within round(fps * look_around) of it
C19_StepIsRounded ==
  (pv = "sample" /\ hist.step # <<>>) =>
    LET st == hist.step[1]
        s == PyRound(cap.fps * 250, 10000)
        w == PyRound(cap.fps * 25, 10000)
    IN /\ frame_count = st.p + s
       /\ st.p % Max(s, 1) = 0
       /\ DOMAIN st.win = Max(0, st.p - w)..Min(cap.total - 1, st.p + w)

\* C20: for a video without frames (a file that cannot be opened reports a
\* frame count and a frame rate of 0), extract_frames goes from opening the
\* capture to returning two empty lists, nothing raised
C20_NoFramesGivesEmpty ==
  (pv # "extract" /\ cap.total = 0) =>
    /\ pv \in {"sample", "detect"}
    /\ frames = <<>> /\ timestamps = <<>>
    /\ hist.raised = "none" /\ ret = NoResult

C20_Witness ==
  /\ pv = "detect"
  /\ cap.opened /\ cap.released /\ cap.total = 0 /\ cap.fps = 0
  /\ frames = <<>> /\ timestamps = <<>>

\* the stage a video can be in right after the stage it is in: the next one,
\* the same one again (a retry, a further frame), or its result
StageOrder ==
  { <<"idle", "meta">>, <<"meta", "meta">>, <<"meta", "thumb">>,
    <<"meta", "returned">>, <<"thumb", "avatar">>, <<"avatar", "download">>,
    <<"download", "download">>, <<"download", "extract">>,
    <<"download", "returned">>, <<"extract", "sample">>,
    <<"sample", "sample">>, <<"sample", "detect">>, <<"detect", "detect">>,
    <<"detect", "remove">>, <<"remove", "returned">>, <<"returned", "idle">> }

\* C21: every step of a run that is not cut short keeps the stages of a
\* video in the order metadata, thumbnail, avatar, download, frames; a video
\* is started only as the idx-th record with idx - 1 results produced, and
\* idx moves on by one only when the result of the current video is appended
\* at the end of the results
C21_OneVideoAtATimeInOrder ==
  [][ (pc = "loop" /\ pc' = "loop") =>
        /\ (pv # pv' \/ pv \notin {"idle", "returned"}) => <<pv, pv'>> \in StageOrder
        /\ (pv = "idle" /\ pv' = "meta") =>
              /\ Len(results) = idx - 1
              /\ video_id' = videos[idx].video_id
        /\ pv' # "idle" => (idx' = idx /\ results' = results)
        /\ idx' # idx =>
              /\ pv = "returned" /\ idx' = idx + 1
              /\ ret.video_id = videos[idx].video_id
              /\ results' = Append(results, ret) ]_vars

C21_Witness ==
  /\ pc = "loop" /\ idx = 2 /\ pv = "detect"
  /\ Len(results) = 1 /\ results[1].video_id = "a"
  /\ video_id = "b" /\ hist.calls = {"metadata", "image", "video"}

\* a face at least 40 wide and 40 high within 0.45 of a gallery entry
LargeKnownFace(face) ==
  /\ face.width >= 40 /\ face.height >= 40
  /\ \E j \in 1..Len(known_face_encodings) :
        /\ known_face_encodings[j] - face.enc <= 45
        /\ face.enc - known_face_encodings[j] <= 45

\* the frames are taken in order and the scan goes on only past frames without
\* a match; true is returned at the first matching face of the first matching
\* frame, nothing after it having been looked at
ScanStopsAtFirstMatch ==
  /\ (pv = "detect" /\ hist.scan # <<>>) =>
        /\ hist.scan[1].frame <= fi
        /\ \A i \in 1..Len(hist.scan[1].faces) : ~LargeKnownFace(hist.scan[1].faces[i])
  /\ (pv = "remove" /\ has_video) =>
        /\ hist.scan # <<>>
        /\ hist.scan[1].frame = fi + 1 /\ fi < Len(frames)
        /\ hist.scan[1].tried \in 1..Len(hist.scan[1].faces)
        /\ LargeKnownFace(hist.scan[1].faces[hist.scan[1].tried])
        /\ \A k \in 1..(hist.scan[1].tried - 1) : ~LargeKnownFace(hist.scan[1].faces[k])

\* C22 as stated: the scan stops at the first match, and false is returned
\* only when every frame has been examined
C22_FalseOnlyAfterEveryFrame ==
  /\ ScanStopsAtFirstMatch
  /\ (pv = "remove" /\ ~has_video) =>
        fi + (IF hist.caught THEN 1 ELSE 0) = Len(frames)

\* C22, amended: the scan stops at the first match, and false is returned
\* when every frame has been examined without a match or when a failure
\* inside the scan was caught, the frames after it left unexamined
C22_FirstMatchEndsScan ==
  /\ ScanStopsAtFirstMatch
  /\ (pv = "remove" /\ ~has_video) => (hist.caught \/ fi = Len(frames))

C22_Witness ==
  /\ pv = "remove" /\ has_video
  /\ Len(frames) = 2 /\ fi = 0
  /\ Len(hist.scan[1].faces) = 2 /\ hist.scan[1].tried = 1

\* C23: download_video gives None only when all `retries` calls of
\* ydl.download have been made, and a path it gives is that of a file of the
\* temp directory
C23_NullOnlyAfterAllRetries ==
  /\ (pv = "returned" /\ "video" \in hist.calls /\ video_path = None)
        => hist.fetches = 3
  /\ pv = "extract" => video_path \in DOMAIN files

\* C24: no failure of the metadata calls reaches the except clause of
\* process_video: each is retried and, after the last attempt, the video goes
\* on to its checks with both URLs absent
C24_MetadataFailureDegrades ==
  /\ hist.raised # "metadata"
  /\ hist.meta \in {"pending", "resolved", "exhausted"}
  /\ (hist.meta = "exhausted" /\ pv = "thumb") => (thumbnail_url = "" /\ avatar_url = "")

\* C25: the temp directory holds no file but that of the video being
\* processed, and none at all when a video is started
C25_OnlyCurrentVideoFile ==
  /\ DOMAIN files \subseteq
        (IF pv \in {"download", "extract", "sample", "detect", "remove", "returned"}
         THEN {output_path(video_id)} ELSE {})
  /\ pv = "meta" => files = NoFiles

\* C26: once extract_frames has returned, by the end of its loop, by a failed
\* read or through its except clause, the capture it opened is released, and
\* so it is when process_video deletes the file
C26_CaptureReleased ==
  pv \in {"detect", "remove"} => (cap.opened /\ cap.released)

====
